---------------------------- MODULE Spec2Model ----------------------------
(***************************************************************************)
(* A model of wubin1989/grate: the format registry and its dispatch        *)
(* (grate.go), the xlsx Document and the stream openers (package xlsx,     *)
(* package cfb) and the delimited-text Collection (simple/simple.go).      *)
(*                                                                         *)
(* The module holds several specifications over one set of variables; each *)
(* leaves the variables of the other components at their initial values:   *)
(*   Spec        the registry: Register*, Open / OpenFile / OpenReader     *)
(*   SpecSort    the registry: Register, up to seven entries               *)
(*   SpecXlsx    the xlsx and cfb openers and the xlsx Document            *)
(*   SpecSimple  the simple delimited Source / Collection                  *)
(*   SpecScan    simpleFile.Scan on the rows of a delimited Collection     *)
(*   SpecTool    the row loop of the batch tool (cmd/grate2tsv)            *)
(*   SpecCfb     the streams of a cfb Document                             *)
(*   SpecStream  dispatch of the same bytes by path and by stream          *)
(*   SpecBatch   main, the workers and the cleanup goroutine of grate2tsv  *)
(*   SpecBatchLive   the same under fair scheduling of the goroutines      *)
(***************************************************************************)
EXTENDS Integers, Sequences, FiniteSets, TLC

VARIABLES
    srcTable,      \* grate.go:136  registry of filename probes
    fileTable,     \* grate.go:137  registry of fs.File probes
    readerTable,   \* grate.go:138  registry of io.ReadCloser probes
    nreg,          \* history: Register* calls made, per table and name
    lastOpen,      \* history: the latest dispatch, what it probed and returned
    reader,        \* the caller's io.ReadCloser handed to a stream opener
    fh,            \* the os.File handle xlsx.Open obtains
    doc,           \* the xlsx Document (part_000:25-37)
    ret,           \* what the latest opener call returned
    call,          \* history: the latest Source method call on the Document
    rows,          \* simpleFile.rows     (simple.go:17)
    iterRow,       \* simpleFile.iterRow  (simple.go:18)
    filename,      \* simpleFile.filename (simple.go:16)
    scall,         \* history: the latest call on the simpleFile and its result
    tool,          \* processFile of cmd/grate2tsv: flags, position, output
    batch,         \* main of cmd/grate2tsv: its goroutines and channels
    cfbd,          \* the cfb Document: header cutoff, directory, latest call
    stream         \* history: the latest dispatches of one content

regVars    == <<srcTable, fileTable, readerTable, nreg, lastOpen>>
xlsxVars   == <<reader, fh, doc, ret, call>>
simpleVars == <<rows, iterRow, filename, scall>>
toolVars   == <<tool, batch>>
cfbVars    == <<cfbd>>
streamVars == <<stream>>
vars       == <<srcTable, fileTable, readerTable, nreg, lastOpen,
                reader, fh, doc, ret, call, rows, iterRow, filename, scall,
                tool, batch, cfbd, stream>>

(***************************************************************************)
(* Bounds of the model.                                                    *)
(***************************************************************************)
MaxReg == 2        \* Register* calls in one behaviour, over the three tables

(***************************************************************************)
(* Errors.  An error value is the chain of errors it wraps, outermost      *)
(* first; the nil error is the empty chain.                                *)
(***************************************************************************)
Nil              == <<>>
ErrNotInFormat   == <<"ErrNotInFormat">>
ErrUnknownFormat == <<"ErrUnknownFormat">>

\* grate.WrapErr(cause, class): the cause, still classified as class.
WrapErr(cause, class) == cause \o class

\* A variant that compares the error itself and does not look into the chain.
ErrorsIsBare(err, target) == err = target

\* errors.Is(err, target) for a sentinel target: some error of the chain is it.
ErrorsIs(err, target) == \E i \in 1..Len(err) : <<err[i]>> = target

NoSource == "nil"

(***************************************************************************)
(* The registry (grate.go:118-174).                                        *)
(***************************************************************************)
Names == {"xls", "xlsx"}      \* backend names
Pris  == {1, 5}               \* priorities backends register at

\* srcOpenTab / fileOpenTab / readerOpenTab.  op is the backend's probe
\* function; ord is history: the rank of the Register* call that added the
\* entry among the calls on its table.
OpenTab(name, pri, ord) == [name |-> name, pri |-> pri, op |-> name, ord |-> ord]

Perms(n) == {p \in [1..n -> 1..n] : \A i, j \in 1..n : p[i] = p[j] => i = j}

IsSortedBy(tab) == \A i, j \in 1..Len(tab) : i < j => ~(tab[j].pri < tab[i].pri)

\* less(i, j) of the three sort.Slice calls: by priority alone.
Less(x, y) == x.pri < y.pri

\* The inner loop of the sort package's insertionSort: x, appended to the
\* ordered run pre, moves left while it is less than its left neighbour.
RECURSIVE InsertLeft(_, _)
InsertLeft(pre, x) ==
    IF pre = <<>> \/ ~Less(x, pre[Len(pre)])
    THEN Append(pre, x)
    ELSE Append(InsertLeft(SubSeq(pre, 1, Len(pre) - 1), x), pre[Len(pre)])

\* insertionSort over the whole slice: tab with its first k entries in order.
RECURSIVE InsertionSortTo(_, _)
InsertionSortTo(tab, k) ==
    IF k = 0 THEN <<>> ELSE InsertLeft(InsertionSortTo(tab, k - 1), tab[k])

InsertionSort(tab) == InsertionSortTo(tab, Len(tab))

\* Slices of at most MaxInsertion entries are sorted by insertion sort alone
\* by Go 1.19 and later (pdqsort), and by one ShellSort pass with gap
\* ShellGap followed by insertion sort by Go 1.18 and earlier (quickSort).
MaxInsertion == 12
ShellGap     == 6

Swap(tab, i, j) == [tab EXCEPT ![i] = tab[j], ![j] = tab[i]]

\* "for i := a + 6; i < b; i++ { if less(i, i-6) { swap(i, i-6) } }", from
\* the i-th entry on.
RECURSIVE ShellPassFrom(_, _)
ShellPassFrom(tab, i) ==
    IF i > Len(tab) THEN tab
    ELSE ShellPassFrom(IF Less(tab[i], tab[i - ShellGap])
                       THEN Swap(tab, i, i - ShellGap) ELSE tab, i + 1)

ShellPass(tab) == ShellPassFrom(tab, ShellGap + 1)

\* sort.Slice(tab, less): the slice sorted by priority.  sort.Slice "is not
\* guaranteed to be stable: equal elements may be reversed from their
\* original order"; which order comes out depends on the Go release the
\* program is built with, so the results are those of the releases: up to
\* MaxInsertion entries, insertion sort with or without the ShellSort pass;
\* beyond, any arrangement ordered by priority.
SortSlice(tab) ==
    IF Len(tab) <= MaxInsertion
    THEN {InsertionSort(tab), InsertionSort(ShellPass(tab))}
    ELSE {t \in {[i \in 1..Len(tab) |-> tab[p[i]]] : p \in Perms(Len(tab))} :
             IsSortedBy(t)}

\* A variant that keeps a table as it is when it already holds the name.
RegisterIntoOnce(tab, name, pri) ==
    IF \E i \in 1..Len(tab) : tab[i].name = name
    THEN {tab}
    ELSE SortSlice(Append(tab, OpenTab(name, pri, Len(tab) + 1)))

\* The body shared by Register, RegisterFile and RegisterReader: append the
\* entry, then sort the table.  The possible tables after the call.
RegisterInto(tab, name, pri) ==
    SortSlice(Append(tab, OpenTab(name, pri, Len(tab) + 1)))

TableIds == {"src", "file", "reader"}

RECURSIVE SumOver(_, _)
SumOver(f, S) ==
    IF S = {} THEN 0
    ELSE LET x == CHOOSE y \in S : TRUE IN f[x] + SumOver(f, S \ {x})

\* Register* calls made so far on table t.
Calls(t) == SumOver(nreg[t], Names)

\* The model makes at most MaxReg Register* calls in a behaviour of Spec.
CanRegister == Calls("src") + Calls("file") + Calls("reader") < MaxReg

NoOpen == [kind |-> "none", bytes |-> [n \in Names |-> "ok"], invoked |-> <<>>,
           src |-> NoSource, err |-> Nil, again |-> FALSE,
           prevInvoked |-> <<>>, prevSrc |-> NoSource, prevErr |-> Nil]

Register(name, pri) ==
    /\ srcTable' \in RegisterInto(srcTable, name, pri)
    /\ nreg' = [nreg EXCEPT !["src"][name] = @ + 1]
    /\ lastOpen' = NoOpen
    /\ UNCHANGED <<fileTable, readerTable>>
    /\ UNCHANGED <<xlsxVars, simpleVars,
                 toolVars, cfbVars, streamVars>>

RegisterFile(name, pri) ==
    /\ fileTable' \in RegisterInto(fileTable, name, pri)
    /\ nreg' = [nreg EXCEPT !["file"][name] = @ + 1]
    /\ lastOpen' = NoOpen
    /\ UNCHANGED <<srcTable, readerTable>>
    /\ UNCHANGED <<xlsxVars, simpleVars,
                 toolVars, cfbVars, streamVars>>

RegisterReader(name, pri) ==
    /\ readerTable' \in RegisterInto(readerTable, name, pri)
    /\ nreg' = [nreg EXCEPT !["reader"][name] = @ + 1]
    /\ lastOpen' = NoOpen
    /\ UNCHANGED <<srcTable, fileTable>>
    /\ UNCHANGED <<xlsxVars, simpleVars,
                 toolVars, cfbVars, streamVars>>

(***************************************************************************)
(* Dispatch (grate.go:68-116).  The content handed to Open is described by *)
(* how each backend's probe reacts to it.                                  *)
(***************************************************************************)
ProbeKinds == {"ok", "notInFormat", "wrappedNotInFormat", "fatal"}
Contents   == [Names -> ProbeKinds]

\* o.op(filename): the (Source, error) pair probe op returns on content b.
Probe(op, b) ==
    CASE b[op] = "ok"                 -> [src |-> op, err |-> Nil]
      [] b[op] = "notInFormat"        -> [src |-> NoSource, err |-> ErrNotInFormat]
      [] b[op] = "wrappedNotInFormat" -> [src |-> NoSource,
                                          err |-> WrapErr(<<"cause">>, ErrNotInFormat)]
      [] OTHER                        -> [src |-> NoSource, err |-> <<"fatal">>]

\* A variant that visits the entries in any order, as ranging over a map does.
RangeOrdersAny(tab) == Perms(Len(tab))

\* "for _, o := range table": a slice is ranged over by ascending index.
RangeOrders(tab) == {[i \in 1..Len(tab) |-> i]}

\* A variant that, every probe having rejected, returns the last probe's error.
RECURSIVE OpenLoopLastErr(_, _, _, _, _)
OpenLoopLastErr(tab, order, b, k, inv) ==
    IF k > Len(order)
    THEN [invoked |-> inv, src |-> NoSource,
          err |-> IF Len(order) = 0 THEN ErrUnknownFormat
                  ELSE Probe(tab[order[Len(order)]].op, b).err]
    ELSE LET r == Probe(tab[order[k]].op, b) IN
         IF r.err = Nil
         THEN [invoked |-> Append(inv, order[k]), src |-> r.src, err |-> Nil]
         ELSE IF ~ErrorsIs(r.err, ErrNotInFormat)
         THEN [invoked |-> Append(inv, order[k]), src |-> NoSource, err |-> r.err]
         ELSE OpenLoopLastErr(tab, order, b, k + 1, Append(inv, order[k]))

\* The loop of Open / OpenFile / OpenReader from the k-th entry visited on,
\* inv being the entries probed so far.
RECURSIVE OpenLoop(_, _, _, _, _)
OpenLoop(tab, order, b, k, inv) ==
    IF k > Len(order)
    THEN [invoked |-> inv, src |-> NoSource, err |-> ErrUnknownFormat]
    ELSE LET r == Probe(tab[order[k]].op, b) IN
         IF r.err = Nil
         THEN [invoked |-> Append(inv, order[k]), src |-> r.src, err |-> Nil]
         ELSE IF ~ErrorsIs(r.err, ErrNotInFormat)
         THEN [invoked |-> Append(inv, order[k]), src |-> NoSource, err |-> r.err]
         ELSE OpenLoop(tab, order, b, k + 1, Append(inv, order[k]))

\* The record of one dispatch; again says it repeats the latest dispatch
\* (same function, same content, no registration in between), whose outcome
\* it then keeps beside its own.
Dispatched(kind, tab, order, b) ==
    LET r   == OpenLoop(tab, order, b, 1, <<>>)
        rep == lastOpen.kind = kind /\ lastOpen.bytes = b
    IN  [kind |-> kind, bytes |-> b, invoked |-> r.invoked, src |-> r.src,
         err |-> r.err, again |-> rep,
         prevInvoked |-> IF rep THEN lastOpen.invoked ELSE <<>>,
         prevSrc     |-> IF rep THEN lastOpen.src ELSE NoSource,
         prevErr     |-> IF rep THEN lastOpen.err ELSE Nil]

Open(b) ==
    /\ \E order \in RangeOrders(srcTable) :
          lastOpen' = Dispatched("Open", srcTable, order, b)
    /\ UNCHANGED <<srcTable, fileTable, readerTable, nreg>>
    /\ UNCHANGED <<xlsxVars, simpleVars,
                 toolVars, cfbVars, streamVars>>

OpenFile(b) ==
    /\ \E order \in RangeOrders(fileTable) :
          lastOpen' = Dispatched("OpenFile", fileTable, order, b)
    /\ UNCHANGED <<srcTable, fileTable, readerTable, nreg>>
    /\ UNCHANGED <<xlsxVars, simpleVars,
                 toolVars, cfbVars, streamVars>>

OpenReader(b) ==
    /\ \E order \in RangeOrders(readerTable) :
          lastOpen' = Dispatched("OpenReader", readerTable, order, b)
    /\ UNCHANGED <<srcTable, fileTable, readerTable, nreg>>
    /\ UNCHANGED <<xlsxVars, simpleVars,
                 toolVars, cfbVars, streamVars>>

\* The table a dispatch function ranges over.
TableOf(kind) ==
    CASE kind = "Open"     -> srcTable
      [] kind = "OpenFile" -> fileTable
      [] OTHER             -> readerTable

(***************************************************************************)
(* The caller's io.ReadCloser.  It holds len bytes; when fails, Read       *)
(* returns an error once failAt bytes were read; closeErr is whether Close *)
(* returns an error.  pos, eof and closes record what was done to it:      *)
(* bytes read, end of stream seen, Close calls.                            *)
(***************************************************************************)
MaxLen == 2        \* bytes a caller's reader holds

NoReader == [len |-> 0, fails |-> FALSE, failAt |-> 0, closeErr |-> FALSE,
             pos |-> 0, eof |-> FALSE, closes |-> 0]

Readers ==
    {[len |-> l, fails |-> f, failAt |-> a, closeErr |-> c,
      pos |-> 0, eof |-> FALSE, closes |-> 0] :
        l \in 0..MaxLen, f \in BOOLEAN, a \in 0..MaxLen, c \in BOOLEAN}

\* Readers a caller can hand over: a failure lies within the stream.
IsReader(r) == r.failAt <= r.len /\ (~r.fails => r.failAt = 0)

\* io.ReadAll(reader): read until end of stream or an error; the reader
\* afterwards, the number of bytes obtained and the error.
ReadAll(r) ==
    IF r.fails /\ r.failAt >= r.pos
    THEN [reader |-> [r EXCEPT !.pos = r.failAt], n |-> r.failAt - r.pos,
          err |-> <<"read error">>]
    ELSE [reader |-> [r EXCEPT !.pos = r.len, !.eof = TRUE], n |-> r.len - r.pos,
          err |-> Nil]

\* reader.Close().
CloseReader(r) ==
    [reader |-> [r EXCEPT !.closes = @ + 1],
     err |-> IF r.closeErr THEN <<"close error">> ELSE Nil]

(***************************************************************************)
(* The content of a workbook file, by what the decoder finds in it: is it  *)
(* a ZIP archive, the state of each part Document.init opens, whether the  *)
(* primary relationships name an officeDocument, and the sheets of the     *)
(* workbook part (bad: the worksheet part does not parse).                 *)
(***************************************************************************)
MaxSheets == 2     \* sheets of a workbook

Parts      == {"rels", "secRels", "workbook", "styles", "sst"}
SheetNames == {"S1", "S2"}

SheetLists ==
    UNION {[1..n -> [name : SheetNames, bad : BOOLEAN]] : n \in 0..MaxSheets}

AllOk == [p \in Parts |-> "ok"]

\* Workbook contents: a well-formed workbook with any sheets, and the
\* contents that are not a ZIP archive or have one defective part.
XlsxContents ==
    {[zip |-> TRUE, parts |-> AllOk, primary |-> TRUE, sheets |-> sh] :
        sh \in SheetLists}
    \cup {[zip |-> FALSE, parts |-> AllOk, primary |-> TRUE, sheets |-> <<>>]}
    \cup {[zip |-> TRUE, parts |-> AllOk, primary |-> FALSE, sheets |-> <<>>]}
    \cup {[zip |-> TRUE, parts |-> [AllOk EXCEPT ![p] = st], primary |-> TRUE,
           sheets |-> <<>>] : p \in Parts, st \in {"missing", "bad"}}

\* d.openXML(name) followed by the part's parser: io.EOF when the archive has
\* no such part, the parser's error when the part does not parse.
PartErr(c, p) ==
    CASE c.parts[p] = "missing" -> <<"EOF">>
      [] c.parts[p] = "bad"     -> <<"xml error">>
      [] OTHER                  -> Nil

\* A variant of init that returns a failure of _rels/.rels as it is.
DocInitPlain(c) ==
    IF PartErr(c, "rels") # Nil THEN PartErr(c, "rels")
    ELSE IF ~c.primary THEN <<"xlsx: invalid document">>
    ELSE IF PartErr(c, "secRels") # Nil THEN PartErr(c, "secRels")
    ELSE IF PartErr(c, "workbook") # Nil THEN PartErr(c, "workbook")
    ELSE IF PartErr(c, "styles") # Nil THEN PartErr(c, "styles")
    ELSE IF PartErr(c, "sst") # Nil THEN PartErr(c, "sst")
    ELSE Nil

\* Document.init (part_000:177-248): the error it returns on content c.
DocInit(c) ==
    IF PartErr(c, "rels") # Nil THEN WrapErr(PartErr(c, "rels"), ErrNotInFormat)
    ELSE IF ~c.primary THEN <<"xlsx: invalid document">>
    ELSE IF PartErr(c, "secRels") # Nil THEN PartErr(c, "secRels")
    ELSE IF PartErr(c, "workbook") # Nil THEN PartErr(c, "workbook")
    ELSE IF PartErr(c, "styles") # Nil THEN PartErr(c, "styles")
    ELSE IF PartErr(c, "sst") # Nil THEN PartErr(c, "sst")
    ELSE Nil

(***************************************************************************)
(* The Document (part_000:25-37).  f is its io.Closer ("nil" or "file"),   *)
(* r what its zip.Reader reads from ("file" or the "buffer" of bytes read  *)
(* from a stream).  closed and was are history: Close was called, and the  *)
(* sheet names the workbook was opened with.  A sheet holds                *)
(* its name, err (errNotLoaded until parsed), the wrapped Collection and,  *)
(* as history, the number of parseSheet calls (parses) and what the first  *)
(* Get that selected it returned (first).                                  *)
(***************************************************************************)
ErrNotLoaded     == <<"errNotLoaded">>
ErrSheetNotFound == <<"xlsx: sheet not found">>
NoColl           == "nil"

NoDoc == [f |-> "nil", r |-> "none", sheets |-> <<>>, strings |-> <<>>,
          xfs |-> <<>>, closed |-> FALSE, was |-> <<>>]

\* The sheets parseWorkbook leaves in d.sheets: none loaded yet.
NewSheets(c) ==
    [i \in 1..Len(c.sheets) |->
        [name |-> c.sheets[i].name, bad |-> c.sheets[i].bad,
         err |-> ErrNotLoaded, wrapped |-> NoColl, parses |-> 0,
         first |-> <<>>]]

\* The Document after a successful init on content c.
NewDoc(f, r, c) ==
    [f |-> f, r |-> r, sheets |-> NewSheets(c), strings |-> <<"str">>,
     xfs |-> <<0>>, closed |-> FALSE,
     was |-> [i \in 1..Len(c.sheets) |-> c.sheets[i].name]]

\* What an opener returned: by names the opener, panic says it did not
\* return but panicked; input is history, the content it was given.
NoInput == [zip |-> FALSE, parts |-> AllOk, primary |-> FALSE, sheets |-> <<>>]
NoRet   == [input |-> NoInput, panic |-> FALSE, by |-> "none", src |-> "nil",
            err |-> Nil]
\* History of the latest call on the Document; of a Get also whether the
\* sheet it selected had been selected by an earlier Get (repeat) and the
\* sheets it materialized (loaded).
NoCall == [op |-> "none", arg |-> "", names |-> <<>>, coll |-> NoColl,
           err |-> Nil, afterClose |-> FALSE, repeat |-> FALSE, loaded |-> {}]

\* os.File.Close on handle state h: the state after, and the error.
FileClose(h) ==
    [fh |-> "closed", err |-> IF h = "open" THEN Nil ELSE <<"file already closed">>]

\* A variant of Close that releases the handle and keeps the sheets.
CloseKeepSheets(d, h) ==
    LET cleared == [d EXCEPT !.xfs = <<>>, !.strings = <<>>, !.closed = TRUE]
    IN  IF d.f # "nil"
        THEN [doc |-> cleared, fh |-> FileClose(h).fh, err |-> FileClose(h).err]
        ELSE [doc |-> cleared, fh |-> h, err |-> Nil]

\* Document.Close (part_000:39-50) on d with file handle state h.
Close(d, h) ==
    LET cleared == [d EXCEPT !.xfs = <<>>, !.strings = <<>>, !.sheets = <<>>,
                             !.closed = TRUE]
    IN  IF d.f # "nil"
        THEN [doc |-> cleared, fh |-> FileClose(h).fh, err |-> FileClose(h).err]
        ELSE [doc |-> cleared, fh |-> h, err |-> Nil]

\* xlsx.Open(filename) (part_000:52-78).  exists: os.Open succeeds; statOk:
\* f.Stat succeeds; c: the file's content.
XlsxOpen(exists, statOk, c) ==
    /\ ret.by = "none"
    /\ IF ~exists
       THEN /\ ret' = [input |-> c, panic |-> FALSE, by |-> "xlsx.Open", src |-> "nil", err |-> <<"open error">>]
            /\ UNCHANGED <<fh, doc>>
       ELSE IF ~statOk
       THEN /\ ret' = [input |-> c, panic |-> FALSE, by |-> "xlsx.Open", src |-> "nil", err |-> <<"stat error">>]
            /\ fh' = "open"
            /\ UNCHANGED doc
       ELSE IF ~c.zip
       THEN /\ ret' = [input |-> c, panic |-> FALSE, by |-> "xlsx.Open", src |-> "nil",
                       err |-> WrapErr(<<"zip: not a valid zip file">>, ErrNotInFormat)]
            /\ fh' = "open"
            /\ UNCHANGED doc
       ELSE IF DocInit(c) # Nil
       THEN /\ ret' = [input |-> c, panic |-> FALSE, by |-> "xlsx.Open", src |-> "nil", err |-> DocInit(c)]
            /\ fh' = Close([NoDoc EXCEPT !.f = "file", !.r = "file"], "open").fh
            /\ UNCHANGED doc
       ELSE /\ ret' = [input |-> c, panic |-> FALSE, by |-> "xlsx.Open", src |-> "doc", err |-> Nil]
            /\ fh' = "open"
            /\ doc' = NewDoc("file", "file", c)
    /\ UNCHANGED <<reader, call>>
    /\ UNCHANGED <<regVars, simpleVars,
                 toolVars, cfbVars, streamVars>>

\* xlsx.OpenFile(file) (part_000:81-137) on an fs.File holding content c.
\* readerAt: the file implements io.ReaderAt, and is then the open handle
\* fh; a file that does not is read as the stream r, closed and set to nil,
\* and the file.Stat() that follows is a call on a nil interface value,
\* which panics.  statOk: file.Stat succeeds.
XlsxOpenFile(r, readerAt, statOk, c) ==
    /\ ret.by = "none"
    /\ IF ~readerAt
       THEN LET ra == ReadAll(r)
                rc == CloseReader(ra.reader)
            IN  /\ IF ra.err # Nil
                   THEN /\ reader' = ra.reader
                        /\ ret' = [input |-> c, panic |-> FALSE,
                                   by |-> "xlsx.OpenFile", src |-> "nil",
                                   err |-> ra.err]
                   ELSE /\ reader' = rc.reader
                        /\ ret' = [input |-> c, panic |-> TRUE,
                                   by |-> "xlsx.OpenFile", src |-> "nil",
                                   err |-> Nil]
                /\ UNCHANGED <<fh, doc>>
       ELSE /\ IF ~statOk
               THEN /\ ret' = [input |-> c, panic |-> FALSE,
                               by |-> "xlsx.OpenFile", src |-> "nil",
                               err |-> <<"stat error">>]
                    /\ fh' = "open"
                    /\ UNCHANGED doc
               ELSE IF ~c.zip
               THEN /\ ret' = [input |-> c, panic |-> FALSE,
                               by |-> "xlsx.OpenFile", src |-> "nil",
                               err |-> WrapErr(<<"zip: not a valid zip file">>,
                                               ErrNotInFormat)]
                    /\ fh' = "open"
                    /\ UNCHANGED doc
               ELSE IF DocInit(c) # Nil
               THEN /\ ret' = [input |-> c, panic |-> FALSE,
                               by |-> "xlsx.OpenFile", src |-> "nil",
                               err |-> DocInit(c)]
                    /\ fh' = Close([NoDoc EXCEPT !.f = "file", !.r = "file"],
                                   "open").fh
                    /\ UNCHANGED doc
               ELSE /\ ret' = [input |-> c, panic |-> FALSE,
                               by |-> "xlsx.OpenFile", src |-> "doc",
                               err |-> Nil]
                    /\ fh' = "open"
                    /\ doc' = NewDoc("file", "file", c)
            /\ UNCHANGED reader
    /\ UNCHANGED call
    /\ UNCHANGED <<regVars, simpleVars,
                 toolVars, cfbVars, streamVars>>

\* xlsx.OpenReader(reader) (part_000:140-174) on reader r holding content c.
XlsxOpenReader(r, c) ==
    /\ ret.by = "none"
    /\ LET ra == ReadAll(r)
           rc == CloseReader(ra.reader)
       IN  IF ra.err # Nil
           THEN /\ reader' = ra.reader
                /\ ret' = [input |-> c, panic |-> FALSE, by |-> "xlsx.OpenReader", src |-> "nil", err |-> ra.err]
                /\ UNCHANGED doc
           ELSE IF rc.err # Nil
           THEN /\ reader' = rc.reader
                /\ ret' = [input |-> c, panic |-> FALSE, by |-> "xlsx.OpenReader", src |-> "nil", err |-> rc.err]
                /\ UNCHANGED doc
           ELSE IF ~c.zip
           THEN /\ reader' = rc.reader
                /\ ret' = [input |-> c, panic |-> FALSE, by |-> "xlsx.OpenReader", src |-> "nil",
                           err |-> WrapErr(<<"zip: not a valid zip file">>,
                                           ErrNotInFormat)]
                /\ UNCHANGED doc
           ELSE IF DocInit(c) # Nil
           THEN /\ reader' = rc.reader
                /\ ret' = [input |-> c, panic |-> FALSE, by |-> "xlsx.OpenReader", src |-> "nil",
                           err |-> DocInit(c)]
                /\ UNCHANGED doc
           ELSE /\ reader' = rc.reader
                /\ ret' = [input |-> c, panic |-> FALSE, by |-> "xlsx.OpenReader", src |-> "doc", err |-> Nil]
                /\ doc' = NewDoc("nil", "buffer", c)
    /\ UNCHANGED <<fh, call>>
    /\ UNCHANGED <<regVars, simpleVars,
                 toolVars, cfbVars, streamVars>>

\* cfb.OpenReader(reader) (cmd/grater/main.go:106-127); loadOk: d.load
\* accepts the bytes read.
CfbOpenReader(r, loadOk) ==
    /\ ret.by = "none"
    /\ LET ra == ReadAll(r)
           rc == CloseReader(ra.reader)
       IN  IF ra.err # Nil
           THEN /\ reader' = ra.reader
                /\ ret' = [input |-> NoInput, panic |-> FALSE, by |-> "cfb.OpenReader", src |-> "nil", err |-> ra.err]
           ELSE IF rc.err # Nil
           THEN /\ reader' = rc.reader
                /\ ret' = [input |-> NoInput, panic |-> FALSE, by |-> "cfb.OpenReader", src |-> "nil", err |-> rc.err]
           ELSE IF ~loadOk
           THEN /\ reader' = rc.reader
                /\ ret' = [input |-> NoInput, panic |-> FALSE, by |-> "cfb.OpenReader", src |-> "nil",
                           err |-> <<"load error">>]
           ELSE /\ reader' = rc.reader
                /\ ret' = [input |-> NoInput, panic |-> FALSE, by |-> "cfb.OpenReader", src |-> "cfbdoc", err |-> Nil]
    /\ UNCHANGED <<fh, doc, call>>
    /\ UNCHANGED <<regVars, simpleVars,
                 toolVars, cfbVars, streamVars>>

\* s.parseSheet(): the sheet after materialization, and the error returned.
ParseSheet(sh) ==
    [sheet |-> [sh EXCEPT !.wrapped = "coll", !.parses = @ + 1],
     err   |-> IF sh.bad THEN <<"parse error">> ELSE Nil]

\* The sheets of d named n, by position.
Named(d, n) == {i \in 1..Len(d.sheets) : d.sheets[i].name = n}

\* Document.List (part_000:267-273): the names of d.sheets, in order.
List(d) == [i \in 1..Len(d.sheets) |-> d.sheets[i].name]

\* Document.Get (part_000:275-285): the Document after the call, the
\* Collection and the error returned.  The first sheet of that name is
\* parsed when it is not loaded yet.
\* The sheet a Get returns from, with what this Get returned noted as its
\* first result if it has none yet.
Returned(sh) ==
    [sh EXCEPT !.first = IF @ = <<>>
                         THEN <<[coll |-> sh.wrapped, err |-> sh.err]>> ELSE @]

\* A variant of Get that parses again a sheet whose parse failed.
GetRetrying(d, n) ==
    IF Named(d, n) = {}
    THEN [doc |-> d, coll |-> NoColl, err |-> ErrSheetNotFound]
    ELSE LET i  == CHOOSE x \in Named(d, n) : \A y \in Named(d, n) : x <= y
             sh == d.sheets[i]
         IN  IF sh.err = ErrNotLoaded \/ sh.err # Nil
             THEN LET ps == ParseSheet(sh)
                      s2 == [ps.sheet EXCEPT !.err = ps.err]
                  IN  [doc |-> [d EXCEPT !.sheets[i] = Returned(s2)],
                       coll |-> s2.wrapped, err |-> s2.err]
             ELSE [doc |-> [d EXCEPT !.sheets[i] = Returned(sh)],
                   coll |-> sh.wrapped, err |-> sh.err]

Get(d, n) ==
    IF Named(d, n) = {}
    THEN [doc |-> d, coll |-> NoColl, err |-> ErrSheetNotFound]
    ELSE LET i  == CHOOSE x \in Named(d, n) : \A y \in Named(d, n) : x <= y
             sh == d.sheets[i]
         IN  IF sh.err = ErrNotLoaded
             THEN LET ps == ParseSheet(sh)
                      s2 == [ps.sheet EXCEPT !.err = ps.err]
                  IN  [doc |-> [d EXCEPT !.sheets[i] = Returned(s2)],
                       coll |-> s2.wrapped, err |-> s2.err]
             ELSE [doc |-> [d EXCEPT !.sheets[i] = Returned(sh)],
                   coll |-> sh.wrapped, err |-> sh.err]

ArgNames == SheetNames \cup {"nosuch"}

DocList ==
    /\ ret.src = "doc"
    /\ call' = [NoCall EXCEPT !.op = "List", !.names = List(doc),
                              !.afterClose = doc.closed]
    /\ UNCHANGED <<reader, fh, doc, ret>>
    /\ UNCHANGED <<regVars, simpleVars,
                 toolVars, cfbVars, streamVars>>

DocGet(n) ==
    /\ ret.src = "doc"
    /\ doc' = Get(doc, n).doc
    /\ call' = [NoCall EXCEPT
                   !.op = "Get", !.arg = n, !.coll = Get(doc, n).coll,
                   !.err = Get(doc, n).err, !.afterClose = doc.closed,
                   !.repeat = \E i \in Named(doc, n) : doc.sheets[i].first # <<>>,
                   !.loaded = {i \in 1..Len(doc.sheets) :
                                  Get(doc, n).doc.sheets[i].parses
                                      # doc.sheets[i].parses}]
    /\ UNCHANGED <<reader, fh, ret>>
    /\ UNCHANGED <<regVars, simpleVars,
                 toolVars, cfbVars, streamVars>>

DocClose ==
    /\ ret.src = "doc"
    /\ doc' = Close(doc, fh).doc
    /\ fh' = Close(doc, fh).fh
    /\ call' = [NoCall EXCEPT !.op = "Close", !.err = Close(doc, fh).err,
                              !.afterClose = doc.closed]
    /\ UNCHANGED <<reader, ret>>
    /\ UNCHANGED <<regVars, simpleVars,
                 toolVars, cfbVars, streamVars>>

(***************************************************************************)
(* The simple delimited backend (simple/simple.go).                        *)
(***************************************************************************)
MaxRows      == 2  \* rows of a delimited file
MaxCols      == 2  \* cells of a row
MaxExtraNext == 2  \* Next calls made after the one that first returned false

Cells     == {"", "x"}
RowSet    == UNION {[1..w -> Cells] : w \in 0..MaxCols}
RowLists  == UNION {[1..n -> RowSet] : n \in 0..MaxRows}

\* A filename is its path, a sequence of components.
Filenames == {<<"a.csv">>, <<"data", "b.tsv">>}

\* filepath.Base(filename): the last component of the path.
Base(f) == f[Len(f)]

\* History of the calls on the simpleFile: the latest call (op, its argument
\* and results), the Next calls made (nexts, the latest result ok, the rows
\* visited), the Next calls since the latest Get (sinceGet, -1 before any
\* Get), and of the latest Scan its destinations, the cursor and rows before
\* it, the destinations it assigned, whether it panicked; scanFailed: some
\* Scan has returned an error.
NoSCall == [op |-> "none", arg |-> "", names |-> <<>>, coll |-> NoColl,
            err |-> Nil, ok |-> FALSE, nexts |-> 0, visited |-> <<>>,
            sinceGet |-> -1, empty |-> FALSE, args |-> <<>>, before |-> <<>>,
            written |-> 0, panic |-> FALSE, scanFailed |-> FALSE]

\* simpleFile.List (simple.go:22-24).
SimpleFileList(f) == <<Base(f)>>

\* simpleFile.Get (simple.go:31-33): the receiver and a nil error, whatever
\* the name.
SimpleFileGet(name) == [coll |-> "t", err |-> Nil]

\* A variant of Next that compares the cursor before advancing it.
NextRowLate(it, rws) == [iterRow |-> it + 1, ok |-> it < Len(rws)]

\* simpleFile.Next (simple.go:37-40): iterRow counts rows from 0.
NextRow(it, rws) == [iterRow |-> it + 1, ok |-> it + 1 < Len(rws)]

\* simpleFile.Strings (simple.go:43-45): t.rows[t.iterRow].
Strings(rws, it) == rws[it + 1]

\* A variant of Formats that sizes its result by the first row.
FormatsFirstRow(rws, it) == [i \in 1..Len(rws[1]) |-> "General"]

\* simpleFile.Formats (simple.go:48-54).
Formats(rws, it) == [i \in 1..Len(rws[it + 1]) |-> "General"]

\* simpleFile.Types (simple.go:59-69).
Types(rws, it) ==
    [i \in 1..Len(rws[it + 1]) |->
        IF rws[it + 1][i] = "" THEN "blank" ELSE "string"]

\* The cursor refers to a row.
OnRow == 0 <= iterRow /\ iterRow < Len(rows)

SimpleList ==
    /\ filename # <<>>
    /\ scall' = [scall EXCEPT !.op = "List", !.arg = "",
                              !.names = SimpleFileList(filename),
                              !.coll = NoColl, !.err = Nil]
    /\ UNCHANGED <<rows, iterRow, filename>>
    /\ UNCHANGED <<regVars, xlsxVars,
                 toolVars, cfbVars, streamVars>>

SimpleGet(name) ==
    /\ filename # <<>>
    /\ scall' = [scall EXCEPT !.op = "Get", !.arg = name, !.names = <<>>,
                              !.coll = SimpleFileGet(name).coll,
                              !.err = SimpleFileGet(name).err,
                              !.sinceGet = 0]
    /\ UNCHANGED <<rows, iterRow, filename>>
    /\ UNCHANGED <<regVars, xlsxVars,
                 toolVars, cfbVars, streamVars>>

SimpleNext ==
    /\ filename # <<>>
    /\ iterRow < Len(rows) + MaxExtraNext
    /\ iterRow' = NextRow(iterRow, rows).iterRow
    /\ scall' = [scall EXCEPT
                    !.op = "Next", !.arg = "", !.names = <<>>, !.coll = NoColl,
                    !.err = Nil, !.ok = NextRow(iterRow, rows).ok,
                    !.nexts = @ + 1,
                    !.visited = IF NextRow(iterRow, rows).ok
                                THEN Append(@, NextRow(iterRow, rows).iterRow)
                                ELSE @,
                    !.sinceGet = IF @ >= 0 THEN @ + 1 ELSE @,
                    !.args = <<>>, !.before = <<>>, !.written = 0,
                    !.panic = FALSE]
    /\ UNCHANGED <<rows, filename>>
    /\ UNCHANGED <<regVars, xlsxVars,
                 toolVars, cfbVars, streamVars>>

SimpleArgNames == {"a.csv", "b.tsv", "nosuch"}

\* A variant of IsEmpty that reports whether a row is left after the cursor.
IsEmptyAhead(rws, it) == it + 1 >= Len(rws)

\* simpleFile.IsEmpty (simple.go:111-113).
IsEmpty(rws, it) == Len(rws) = 0

\* simpleFile.Err (simple.go:116-118).
Err(rws, it) == Nil

SimpleIsEmpty ==
    /\ filename # <<>>
    /\ scall' = [scall EXCEPT !.op = "IsEmpty", !.arg = "", !.names = <<>>,
                              !.coll = NoColl, !.err = Nil,
                              !.empty = IsEmpty(rows, iterRow)]
    /\ UNCHANGED <<rows, iterRow, filename>>
    /\ UNCHANGED <<regVars, xlsxVars,
                 toolVars, cfbVars, streamVars>>

(***************************************************************************)
(* simpleFile.Scan (simple.go:74-108).  A destination is described by its  *)
(* dynamic type; a cell by its text.                                       *)
(***************************************************************************)
MaxScanArgs == 2   \* destinations of a Scan call, and cells of a scanned row

ErrInvalidScanType == <<"ErrInvalidScanType">>

DestTypes == {"*bool", "*int", "*int64", "*float64", "*string", "*time.Time",
              "*uint"}
DestLists == UNION {[1..n -> DestTypes] : n \in 0..MaxScanArgs}

\* Cells of the rows scanned: the empty cell and a decimal number.
ScanCells    == {"", "7"}
Numerals     == {"7"}
ScanRowSet   == UNION {[1..w -> ScanCells] : w \in 0..MaxScanArgs}
ScanRowLists == {<<r>> : r \in ScanRowSet}
                    \cup {<<r, q>> : r \in ScanRowSet, q \in ScanRowSet}

\* The error of strconv.ParseInt(cell, 10, 64): a *strconv.NumError naming
\* the function, the input and the reason.
ParseInt(cell) ==
    IF cell \in Numerals THEN Nil
    ELSE <<"strconv.ParseInt", "parsing", cell, "invalid syntax">>

\* The error of strconv.ParseFloat(cell, 64).
ParseFloat(cell) ==
    IF cell \in Numerals THEN Nil
    ELSE <<"strconv.ParseFloat", "parsing", cell, "invalid syntax">>

\* One iteration of the loop over args (simple.go:82-105): the error it
\* ends with, and whether it assigned the destination.
ScanArg(cell, a) ==
    CASE a = "*bool"      -> [err |-> Nil, assigned |-> TRUE]
      [] a = "*int"       -> [err |-> ParseInt(cell), assigned |-> TRUE]
      [] a = "*float64"   -> [err |-> ParseFloat(cell), assigned |-> TRUE]
      [] a = "*string"    -> [err |-> Nil, assigned |-> TRUE]
      [] a = "*time.Time" ->
            [err |-> <<"grate/simple: time.Time not supported, you must parse date strings manually">>,
             assigned |-> FALSE]
      [] OTHER            -> [err |-> ErrInvalidScanType, assigned |-> FALSE]

\* The loop from the i-th destination on, n destinations assigned so far.
RECURSIVE ScanFrom(_, _, _, _)
ScanFrom(row, args, i, n) ==
    IF i > Len(args) THEN [err |-> Nil, written |-> n]
    ELSE LET r == ScanArg(row[i], args[i])
             m == IF r.assigned THEN n + 1 ELSE n
         IN  IF r.err # Nil THEN [err |-> r.err, written |-> m]
             ELSE ScanFrom(row, args, i + 1, m)

\* A variant of Scan that moves the cursor past a row it could not scan.
ScanSkipping(rws, it, args) ==
    IF ~(0 <= it /\ it < Len(rws))
    THEN [iterRow |-> it, panic |-> TRUE, err |-> Nil, written |-> 0]
    ELSE IF Len(rws[it + 1]) # Len(args)
    THEN [iterRow |-> it + 1, panic |-> FALSE, written |-> 0,
          err |-> <<"grate/simple: expected Scan destinations">>]
    ELSE LET r == ScanFrom(rws[it + 1], args, 1, 0)
         IN  [iterRow |-> IF r.err # Nil THEN it + 1 ELSE it, panic |-> FALSE,
              err |-> r.err, written |-> r.written]

\* simpleFile.Scan(args...): the cursor after the call, the error returned
\* and the number of destinations assigned.  t.rows[t.iterRow] panics with
\* an index out of range when the cursor is on no row.
Scan(rws, it, args) ==
    IF ~(0 <= it /\ it < Len(rws))
    THEN [iterRow |-> it, panic |-> TRUE, err |-> Nil, written |-> 0]
    ELSE IF Len(rws[it + 1]) # Len(args)
    THEN [iterRow |-> it, panic |-> FALSE, written |-> 0,
          err |-> <<"grate/simple: expected Scan destinations">>]
    ELSE LET r == ScanFrom(rws[it + 1], args, 1, 0)
         IN  [iterRow |-> it, panic |-> FALSE, err |-> r.err,
              written |-> r.written]

SimpleScan(args) ==
    /\ filename # <<>>
    /\ LET r == Scan(rows, iterRow, args) IN
       /\ iterRow' = r.iterRow
       /\ scall' = [scall EXCEPT
                       !.op = "Scan", !.arg = "", !.names = <<>>,
                       !.coll = NoColl, !.err = r.err, !.panic = r.panic,
                       !.args = IF r.panic THEN <<>> ELSE args,
                       !.before = IF r.panic THEN <<>> ELSE <<iterRow, rows>>,
                       !.written = r.written,
                       !.scanFailed = @ \/ (~r.panic /\ r.err # Nil)]
    /\ UNCHANGED <<rows, filename>>
    /\ UNCHANGED <<regVars, xlsxVars,
                 toolVars, cfbVars, streamVars>>

(***************************************************************************)
(* The batch tool: processFile of cmd/grate2tsv (main.go:175-266) on a     *)
(* delimited file, which has one sheet.  A cell is its text, a sequence of *)
(* characters.  tool holds the flags, the position in processFile (pc),    *)
(* the rows written to the output, ps.NumRows and ps.NumCols and, as       *)
(* history, the rows the file was opened with (orig) and the number of     *)
(* rows the loop has been given (seen).                                    *)
(***************************************************************************)
MaxToolRows == 3   \* rows of the file the batch tool converts

Whitespace == {" ", "\n"}

ToolRowSet ==
    { << <<"a">>, <<"b">> >>,
      << <<>>, <<>>, <<>> >>,
      << <<"c">> >>,
      << <<" ">>, <<"\n", " ">> >>,
      << <<>>, <<" ", "a", "\n">> >> }

ToolRowLists == UNION {[1..n -> ToolRowSet] : n \in 0..MaxToolRows}

\* x without its leading white space.
RECURSIVE TrimLeft(_)
TrimLeft(x) ==
    IF x # <<>> /\ Head(x) \in Whitespace THEN TrimLeft(Tail(x)) ELSE x

\* x without its trailing white space.
RECURSIVE TrimRight(_)
TrimRight(x) ==
    IF x # <<>> /\ x[Len(x)] \in Whitespace
    THEN TrimRight(SubSeq(x, 1, Len(x) - 1)) ELSE x

\* strings.TrimSpace(x).
TrimSpace(x) == TrimRight(TrimLeft(x))

\* newlines.ReplaceAllString(x, " "), newlines being "[ \n\r\t]+": every
\* maximal run of white space becomes one space.
RECURSIVE ReplaceNewlines(_)
ReplaceNewlines(x) ==
    IF x = <<>> THEN <<>>
    ELSE IF Head(x) \in Whitespace
    THEN <<" ">> \o ReplaceNewlines(TrimLeft(Tail(x)))
    ELSE <<Head(x)>> \o ReplaceNewlines(Tail(x))

\* The x of one iteration of the loop over the cells (main.go:234-241).
CellSeen(cell, f) ==
    LET a == IF f.removeNewlines THEN ReplaceNewlines(cell) ELSE cell
    IN  IF f.trimSpaces THEN TrimSpace(a) ELSE a

\* row[i] after that iteration: assigned only under trimSpaces (main.go:240).
CellKept(cell, f) == IF f.trimSpaces THEN CellSeen(cell, f) ELSE cell

\* A variant of nonblank that looks at the cells as they were read.
NonblankRaw(row, f) == \E i \in 1..Len(row) : row[i] # <<>>

\* nonblank after the loop over the cells (main.go:233-248).
Nonblank(row, f) == \E i \in 1..Len(row) : CellSeen(row[i], f) # <<>>

\* ps.NumCols after the loop over the cells, n being its value before: the
\* largest index, counted from 0, of a cell that is not empty.
NumColsAfter(n, row, f) ==
    LET idx == {i - 1 : i \in {j \in 1..Len(row) : CellSeen(row[j], f) # <<>>}}
                   \cup {n}
    IN  CHOOSE m \in idx : \A k \in idx : k <= m

(***************************************************************************)
(* main of the batch tool (cmd/grate2tsv/main.go:92-134) with its          *)
(* goroutines: the workers (runProcessor, main.go:136-159, with the        *)
(* processFile they call) and the cleanup goroutine (main.go:93-100).      *)
(* batch holds                                                             *)
(*   args        flag.Args(): of each file, the number of its sheets that  *)
(*               wb.Get returns and that have rows; the loop passes over   *)
(*               the others, and every sheet when the flag pretend is set, *)
(*               and leaves no trace of them                               *)
(*   next        the argument main sends next                              *)
(*   mainPc      where main stands                                         *)
(*   chanClosed  filenameChan, which is unbuffered, was closed             *)
(*   wg          the counter of procWG                                     *)
(*   workers     of each worker: where it stands, the argument it works on,*)
(*               the sheet it is at, the output it holds                   *)
(*   cleanup     the outputs buffered in the channel cleanup               *)
(*   cleanupClosed                                                         *)
(*   cleaner     the cleanup goroutine: where it stands, the output x      *)
(*   pool        the outputs in outpool                                    *)
(*   objs        of each output object, the file its fields f and b are on *)
(*   files       history, of each file created: it was sent to cleanup,    *)
(*               Flush and Close calls on it, those made before it was     *)
(*               sent (early)                                              *)
(*   recvd       history, of each argument: how often it was received      *)
(* An output is its index in objs, a file its index in files; 0 is none.   *)
(***************************************************************************)
MaxCPU        == 4   \* runtime.NumCPU() is between 1 and MaxCPU
MaxBatchArgs  == 2   \* filenames on the command line
MaxFileSheets == 1   \* sheets of a file
CleanupCap    == 1   \* capacity of the channel cleanup

BatchArgs == UNION {[1..n -> 0..MaxFileSheets] : n \in 0..MaxBatchArgs}

NoWorker == [pc |-> "recv", arg |-> 0, sheet |-> 0, ox |-> 0]
NoFile   == [sent |-> FALSE, flushes |-> 0, closes |-> 0, early |-> 0]

NoBatch == [args |-> <<>>, next |-> 0, mainPc |-> "idle",
            chanClosed |-> FALSE, wg |-> 0, workers |-> <<>>,
            cleanup |-> <<>>, cleanupClosed |-> FALSE,
            cleaner |-> [pc |-> "idle", x |-> 0], pool |-> {},
            objs |-> <<>>, files |-> <<>>, recvd |-> <<>>]

\* nparallel := runtime.NumCPU() / 2 (main.go:121).
NParallel(cpus) == cpus \div 2

\* A variant of the cleanup goroutine's loop body that returns the output to
\* the pool before it flushes and closes it.
CleanupStepsPutFirst == <<"put", "flush", "close">>

\* The body of the cleanup goroutine's loop (main.go:95-97), in order.
CleanupSteps == <<"flush", "close", "put">>

\* The step after step st of the loop body; "range" after the last.
StepAfter(st) ==
    LET i == CHOOSE k \in 1..Len(CleanupSteps) : CleanupSteps[k] = st
    IN  IF i = Len(CleanupSteps) THEN "range" ELSE CleanupSteps[i + 1]

BatchFrame ==
    /\ UNCHANGED tool
    /\ UNCHANGED <<regVars, xlsxVars, simpleVars, cfbVars, streamVars>>

\* main.go:92-125: the cleanup goroutine is started, procWG.Add(nparallel),
\* and nparallel workers are started, on a machine of cpus CPUs.
MainStart(cpus) ==
    /\ batch.mainPc = "start"
    /\ batch' = [batch EXCEPT
                    !.mainPc = "send",
                    !.wg = NParallel(cpus),
                    !.workers = [w \in 1..NParallel(cpus) |-> NoWorker],
                    !.cleaner = [pc |-> "range", x |-> 0]]
    /\ BatchFrame

\* "filenameChan <- fn" (main.go:127) meeting "for fn := range from"
\* (main.go:137) of worker w: the channel is unbuffered, so the send takes
\* place when a worker receives.  The worker goes on into processFile up to
\* the sheets (main.go:177-195): grate.Open or wb.List fails (ok false), and
\* the worker writes the error to fstats under the mutex (main.go:140-147)
\* and comes back to the range loop, or the loop over the sheets is entered.
SendFilename(w, ok) ==
    /\ batch.mainPc = "send"
    /\ batch.next <= Len(batch.args)
    /\ batch.workers[w].pc = "recv"
    /\ batch' = [batch EXCEPT
                    !.next = @ + 1,
                    !.workers[w] = IF ok
                                   THEN [pc |-> "sheet", arg |-> batch.next,
                                         sheet |-> 1, ox |-> 0]
                                   ELSE NoWorker,
                    !.recvd[batch.next] = @ + 1]
    /\ BatchFrame

\* close(filenameChan) (main.go:130), every argument having been sent.
MainClose ==
    /\ batch.mainPc = "send"
    /\ batch.next > Len(batch.args)
    /\ batch' = [batch EXCEPT !.mainPc = "wait", !.chanClosed = TRUE]
    /\ BatchFrame

\* procWG.Wait() and close(cleanup) (main.go:131-132).
MainWait ==
    /\ batch.mainPc = "wait"
    /\ batch.wg = 0
    /\ batch' = [batch EXCEPT !.mainPc = "done", !.cleanupClosed = TRUE]
    /\ BatchFrame

\* "<-done" (main.go:133) meeting "done <- 1" (main.go:99); main returns.
MainDone ==
    /\ batch.mainPc = "done"
    /\ batch.cleaner.pc = "signal"
    /\ batch' = [batch EXCEPT !.mainPc = "returned", !.cleaner.pc = "exit"]
    /\ BatchFrame

\* The range loop of worker w ends on the closed channel: procWG.Done()
\* (main.go:158).
WorkerExit(w) ==
    /\ batch.workers[w].pc = "recv"
    /\ batch.chanClosed
    /\ batch' = [batch EXCEPT !.workers[w].pc = "exit", !.wg = @ - 1]
    /\ BatchFrame

\* One sheet up to its output (main.go:196-229).  created: os.Create
\* succeeds, else processFile returns the error.  The output is taken from
\* the pool: x is an output of the pool, or 0 for one that outpool.New
\* makes, which a sync.Pool may do whatever it holds.  After
\* the last sheet, and after a failed os.Create, the worker writes to fstats
\* under the mutex (main.go:140-156) and comes back to the range loop.
WorkerSheet(w, created, x) ==
    LET wk == batch.workers[w] IN
    /\ wk.pc = "sheet"
    /\ IF wk.sheet > batch.args[wk.arg]
       THEN /\ batch' = [batch EXCEPT !.workers[w] = NoWorker]
       ELSE IF ~created
       THEN /\ batch' = [batch EXCEPT !.workers[w] = NoWorker]
       ELSE LET o == IF x = 0 THEN Len(batch.objs) + 1 ELSE x
                f == Len(batch.files) + 1
            IN  /\ x \in batch.pool \cup {0}
                /\ batch' = [batch EXCEPT
                               !.pool = @ \ {x},
                               !.files = Append(@, NoFile),
                               !.objs = IF x = 0 THEN Append(@, f)
                                        ELSE [@ EXCEPT ![x] = f],
                               !.workers[w].ox = o,
                               !.workers[w].pc = "write"]
    /\ BatchFrame

\* The row loop (main.go:231-259), in which the worker writes to its output,
\* up to "cleanup <- ox" (main.go:262), which waits while the buffer is
\* full; the loop then goes on to the next sheet.
WorkerCleanup(w) ==
    LET wk == batch.workers[w] IN
    /\ wk.pc = "write"
    /\ Len(batch.cleanup) < CleanupCap
    /\ batch' = [batch EXCEPT
                    !.cleanup = Append(@, wk.ox),
                    !.files[batch.objs[wk.ox]].sent = TRUE,
                    !.workers[w] = [wk EXCEPT !.pc = "sheet", !.ox = 0,
                                              !.sheet = @ + 1]]
    /\ BatchFrame

\* "for x := range cleanup" (main.go:94): the next output, or the end of the
\* loop once the channel is closed and empty.
CleanerRange ==
    /\ batch.cleaner.pc = "range"
    /\ IF batch.cleanup # <<>>
       THEN batch' = [batch EXCEPT
                         !.cleaner = [pc |-> CleanupSteps[1],
                                      x |-> Head(batch.cleanup)],
                         !.cleanup = Tail(@)]
       ELSE /\ batch.cleanupClosed
            /\ batch' = [batch EXCEPT !.cleaner = [pc |-> "signal", x |-> 0]]
    /\ BatchFrame

\* x.b.Flush() (main.go:95), on the file the output's fields are on now.
CleanerFlush ==
    LET f == batch.objs[batch.cleaner.x] IN
    /\ batch.cleaner.pc = "flush"
    /\ batch' = [batch EXCEPT
                    !.files[f].flushes = @ + 1,
                    !.files[f].early = IF batch.files[f].sent THEN @ ELSE @ + 1,
                    !.cleaner.pc = StepAfter("flush")]
    /\ BatchFrame

\* x.f.Close() (main.go:96).
CleanerClose ==
    LET f == batch.objs[batch.cleaner.x] IN
    /\ batch.cleaner.pc = "close"
    /\ batch' = [batch EXCEPT
                    !.files[f].closes = @ + 1,
                    !.files[f].early = IF batch.files[f].sent THEN @ ELSE @ + 1,
                    !.cleaner.pc = StepAfter("close")]
    /\ BatchFrame

\* outpool.Put(x) (main.go:97).
CleanerPut ==
    /\ batch.cleaner.pc = "put"
    /\ batch' = [batch EXCEPT
                    !.pool = @ \cup {batch.cleaner.x},
                    !.cleaner.pc = StepAfter("put")]
    /\ BatchFrame

NoTool   == [pc |-> "idle"]

\* wb.Get(s) and sheet.IsEmpty() (main.go:203-213): an empty sheet is
\* skipped, for any other the output is created and the row loop entered.
ToolOpenSheet ==
    /\ tool.pc = "start"
    /\ tool' = [tool EXCEPT !.pc = IF IsEmpty(rows, iterRow) THEN "done"
                                    ELSE "rows"]
    /\ UNCHANGED <<rows, iterRow, filename, scall, batch>>
    /\ UNCHANGED <<regVars, xlsxVars, cfbVars, streamVars>>

\* One evaluation of "for sheet.Next()" with the loop body (main.go:231-259),
\* or the end of the loop (main.go:260-263).  row aliases the Collection's
\* row, so the assignments to row[i] change rows.
ToolRow ==
    /\ tool.pc = "rows"
    /\ LET nx == NextRow(iterRow, rows) IN
       /\ iterRow' = nx.iterRow
       /\ IF nx.ok
          THEN LET row  == Strings(rows, nx.iterRow)
                   kept == [i \in 1..Len(row) |-> CellKept(row[i], tool)]
                   wr   == Nonblank(row, tool) \/ ~tool.skipBlanks
               IN  /\ rows' = [rows EXCEPT ![nx.iterRow + 1] = kept]
                   /\ tool' = [tool EXCEPT
                                 !.seen = @ + 1,
                                 !.numCols = NumColsAfter(@, row, tool),
                                 !.out = IF wr THEN Append(@, kept) ELSE @,
                                 !.numRows = IF wr THEN @ + 1 ELSE @]
          ELSE /\ tool' = [tool EXCEPT !.pc = "done"]
               /\ UNCHANGED rows
    /\ UNCHANGED <<filename, scall, batch>>
    /\ UNCHANGED <<regVars, xlsxVars, cfbVars, streamVars>>
(***************************************************************************)
(* The cfb Document (cmd/grater/main.go:130-152).  cfbd holds the header's *)
(* MiniStreamCutoffSize (cutoff), the directory entries (dir: name, object *)
(* type and declared stream size) and, as history, the latest call.        *)
(***************************************************************************)
MaxDir        == 2     \* directory entries of a cfb Document
MaxStreamSize == 2     \* declared size of a stream

StreamNames == {"Workbook", "Summary"}
ObjectTypes == {"root", "storage", "stream"}
DirEntries  == [name : StreamNames, objectType : ObjectTypes,
                size : 0..MaxStreamSize]
Dirs        == UNION {[1..n -> DirEntries] : n \in 0..MaxDir}

\* Values of header.MiniStreamCutoffSize, read from the file: none of the
\* sizes is below the first, all but the largest are below the second.
Cutoffs == {0, MaxStreamSize}

ErrStreamNotFound == <<"cfb: stream not found">>

NoCfbCall == [op |-> "none", arg |-> "", names |-> <<>>, via |-> "none",
              err |-> Nil]
NoCfb     == [cutoff |-> 0, dir |-> <<>>, call |-> NoCfbCall]

\* cfb Document.List (main.go:130-138): the names of the stream entries.
RECURSIVE CfbList(_)
CfbList(dir) ==
    IF dir = <<>> THEN <<>>
    ELSE IF Head(dir).objectType = "stream"
    THEN <<Head(dir).name>> \o CfbList(Tail(dir))
    ELSE CfbList(Tail(dir))

\* cfb Document.Open(name) (main.go:141-152), its loop from the i-th entry
\* on: the stream reader it asks for (getMiniStreamReader reads through the
\* miniFAT, getStreamReader through the FAT) and the error.
RECURSIVE CfbOpen(_, _, _)
CfbOpen(d, name, i) ==
    IF i > Len(d.dir) THEN [via |-> "none", err |-> ErrStreamNotFound]
    ELSE LET e == d.dir[i] IN
         IF e.name = name /\ e.objectType = "stream"
         THEN IF e.size < d.cutoff
              THEN [via |-> "miniFAT", err |-> Nil]
              ELSE IF e.size # 0
              THEN [via |-> "FAT", err |-> Nil]
              ELSE CfbOpen(d, name, i + 1)
         ELSE CfbOpen(d, name, i + 1)

CfbDocList ==
    /\ cfbd' = [cfbd EXCEPT !.call = [NoCfbCall EXCEPT
                                         !.op = "List",
                                         !.names = CfbList(cfbd.dir)]]
    /\ UNCHANGED <<regVars, xlsxVars, simpleVars, toolVars, streamVars>>

CfbDocOpen(name) ==
    /\ cfbd' = [cfbd EXCEPT !.call = [NoCfbCall EXCEPT
                                         !.op = "Open", !.arg = name,
                                         !.via = CfbOpen(cfbd, name, 1).via,
                                         !.err = CfbOpen(cfbd, name, 1).err]]
    /\ UNCHANGED <<regVars, xlsxVars, simpleVars, toolVars, streamVars>>
(***************************************************************************)
(* Dispatch of one content by path (grate.Open) and by stream              *)
(* (grate.OpenReader), with the backends' own probes: the probes of "xlsx" *)
(* are xlsx.Open and xlsx.OpenReader, those of "xls" open the bytes as a   *)
(* cfb Document (cfb.Open, cfb.OpenReader).  A content says whether the    *)
(* bytes are a cfb file (cfb) and what the xlsx decoder finds in them.     *)
(***************************************************************************)
MaxBackends == 2   \* backends that register in one behaviour of SpecStream

\* No bytes at all: neither a cfb file nor a ZIP archive.
NoBytes == [cfb |-> FALSE, zip |-> FALSE, parts |-> AllOk, primary |-> FALSE,
            sheets |-> <<>>]

StreamContents ==
    {[cfb |-> TRUE, zip |-> FALSE, parts |-> AllOk, primary |-> TRUE,
      sheets |-> <<>>],
     [cfb |-> FALSE, zip |-> FALSE, parts |-> AllOk, primary |-> TRUE,
      sheets |-> <<>>]}
    \cup {[cfb |-> FALSE, zip |-> TRUE, parts |-> [AllOk EXCEPT ![p] = st],
           primary |-> TRUE, sheets |-> <<>>] :
              p \in {"rels", "sst"}, st \in {"ok", "missing"}}

\* Readers that deliver their bytes: at least one byte, no failing Read or
\* Close.
StreamReaders == {r \in Readers : r.len >= 1 /\ ~r.fails /\ ~r.closeErr
                                  /\ r.failAt = 0}

\* What xlsx.Open / xlsx.OpenReader return once they hold bytes of content
\* c (part_000:61-77, 156-173).
XlsxDecode(c) ==
    IF ~c.zip
    THEN [src |-> NoSource,
          err |-> WrapErr(<<"zip: not a valid zip file">>, ErrNotInFormat)]
    ELSE IF DocInit(c) # Nil THEN [src |-> NoSource, err |-> DocInit(c)]
    ELSE [src |-> "xlsx", err |-> Nil]

\* What the xls probes return once d.load has the bytes of content c
\* (main.go:77-81, 121-126): bytes without the cfb signature are rejected
\* as NotInFormat.
XlsDecode(c) ==
    IF ~c.cfb THEN [src |-> NoSource, err |-> ErrNotInFormat]
    ELSE [src |-> "xls", err |-> Nil]

Decode(op, c) == IF op = "xlsx" THEN XlsxDecode(c) ELSE XlsDecode(c)

\* How a filename probe reacts to a file of content c: each probe opens the
\* file itself (part_000:53, main.go:72) and reads all of it.
PathKinds(c) ==
    [n \in Names |->
        LET o == Decode(n, c) IN
        IF o.err = Nil THEN "ok"
        ELSE IF o.err = ErrNotInFormat THEN "notInFormat"
        ELSE IF ErrorsIs(o.err, ErrNotInFormat) THEN "wrappedNotInFormat"
        ELSE "fatal"]

\* A reader probe (part_000:140-174, main.go:106-127) on reader r over
\* content c: it reads what is left of r, closes r and decodes what it read,
\* which is the content only when it read all of its bytes.  whole is
\* history: the probe was given all the bytes.
ReaderProbe(op, r, c) ==
    LET ra   == ReadAll(r)
        rc   == CloseReader(ra.reader)
        all  == ra.n = r.len
        seen == IF all THEN c ELSE NoBytes
    IN  IF ra.err # Nil
        THEN [reader |-> ra.reader, whole |-> all, src |-> NoSource,
              err |-> ra.err]
        ELSE IF rc.err # Nil
        THEN [reader |-> rc.reader, whole |-> all, src |-> NoSource,
              err |-> rc.err]
        ELSE [reader |-> rc.reader, whole |-> all, src |-> Decode(op, seen).src,
              err |-> Decode(op, seen).err]

\* The loop of grate.OpenReader (grate.go:102-116) from the k-th entry on:
\* every probe is handed the same reader, as the probes before left it.
RECURSIVE OpenReaderLoop(_, _, _, _, _, _)
OpenReaderLoop(tab, r, c, k, inv, wh) ==
    IF k > Len(tab)
    THEN [reader |-> r, invoked |-> inv, whole |-> wh, src |-> NoSource,
          err |-> ErrUnknownFormat]
    ELSE LET p == ReaderProbe(tab[k].op, r, c) IN
         IF p.err = Nil \/ ~ErrorsIs(p.err, ErrNotInFormat)
         THEN [reader |-> p.reader, invoked |-> Append(inv, k),
               whole |-> Append(wh, p.whole), src |-> p.src, err |-> p.err]
         ELSE OpenReaderLoop(tab, p.reader, c, k + 1, Append(inv, k),
                             Append(wh, p.whole))

NoOutcome == [done |-> FALSE, invoked |-> <<>>, whole |-> <<>>,
              src |-> NoSource, err |-> Nil]
NoStream  == [bytes |-> NoBytes, path |-> NoOutcome, rd |-> NoOutcome]

\* The package initialization of a backend (part_000:20-22): it registers
\* its three openers under one name and priority.
BackendInit(name, pri) ==
    /\ srcTable' \in RegisterInto(srcTable, name, pri)
    /\ fileTable' \in RegisterInto(fileTable, name, pri)
    /\ readerTable' \in RegisterInto(readerTable, name, pri)
    /\ nreg' = [t \in TableIds |-> [nreg[t] EXCEPT ![name] = @ + 1]]
    /\ lastOpen' = NoOpen
    /\ stream' = NoStream
    /\ UNCHANGED <<xlsxVars, simpleVars, toolVars, cfbVars>>

\* grate.Open(filename) on a file of content c.
StreamOpen(c) ==
    /\ LET o == OpenLoop(srcTable, [i \in 1..Len(srcTable) |-> i],
                         PathKinds(c), 1, <<>>)
       IN  stream' = [bytes |-> c,
                      path  |-> [done |-> TRUE, invoked |-> o.invoked,
                                 whole |-> [i \in 1..Len(o.invoked) |-> TRUE],
                                 src |-> o.src, err |-> o.err],
                      rd    |-> IF stream.bytes = c THEN stream.rd
                                ELSE NoOutcome]
    /\ UNCHANGED <<regVars, xlsxVars, simpleVars, toolVars, cfbVars>>

\* grate.OpenReader(reader) on reader r over content c.
StreamOpenReader(r, c) ==
    /\ LET o == OpenReaderLoop(readerTable, r, c, 1, <<>>, <<>>) IN
       /\ reader' = o.reader
       /\ stream' = [bytes |-> c,
                     path  |-> IF stream.bytes = c THEN stream.path
                               ELSE NoOutcome,
                     rd    |-> [done |-> TRUE, invoked |-> o.invoked,
                                whole |-> o.whole, src |-> o.src,
                                err |-> o.err]]
    /\ UNCHANGED <<fh, doc, ret, call>>
    /\ UNCHANGED <<regVars, simpleVars, toolVars, cfbVars>>

(***************************************************************************)
(* Initial values of the components.                                       *)
(***************************************************************************)
RegInit ==
    /\ srcTable = <<>>
    /\ fileTable = <<>>
    /\ readerTable = <<>>
    /\ nreg = [t \in TableIds |-> [n \in Names |-> 0]]
    /\ lastOpen = NoOpen

XlsxIdle ==
    /\ reader = NoReader
    /\ fh = "none"
    /\ doc = NoDoc
    /\ ret = NoRet
    /\ call = NoCall

SimpleIdle ==
    /\ rows = <<>>
    /\ iterRow = -1
    /\ filename = <<>>
    /\ scall = NoSCall

\* The batch tool, the cfb Document and the stream dispatch at rest.
OtherIdle ==
    /\ tool = NoTool
    /\ batch = NoBatch
    /\ cfbd = NoCfb
    /\ stream = NoStream

(***************************************************************************)
(* The registry's specification.                                           *)
(***************************************************************************)
Init == RegInit /\ XlsxIdle /\ SimpleIdle /\ OtherIdle

Next ==
    \/ \E name \in Names, pri \in Pris : CanRegister /\ Register(name, pri)
    \/ \E name \in Names, pri \in Pris : CanRegister /\ RegisterFile(name, pri)
    \/ \E name \in Names, pri \in Pris : CanRegister /\ RegisterReader(name, pri)
    \/ \E b \in Contents : Open(b)
    \/ \E b \in Contents : OpenFile(b)
    \/ \E b \in Contents : OpenReader(b)

Spec == Init /\ [][Next]_vars

(***************************************************************************)
(* Registration alone, on one table, far enough for the sort to leave      *)
(* plain insertion sort.                                                   *)
(***************************************************************************)
MaxSortReg == 7    \* Register calls in one behaviour of SpecSort

NextSort ==
    \E name \in Names, pri \in Pris :
        Calls("src") < MaxSortReg /\ Register(name, pri)

SpecSort == Init /\ [][NextSort]_vars


(***************************************************************************)
(* The xlsx / cfb openers and the Document: one opener call, then any      *)
(* calls on the Source it returned.                                        *)
(***************************************************************************)
InitXlsx == RegInit /\ XlsxIdle /\ SimpleIdle /\ OtherIdle

NextXlsx ==
    \/ \E exists \in BOOLEAN, statOk \in BOOLEAN, c \in XlsxContents :
          XlsxOpen(exists, statOk, c)
    \/ \E r \in Readers, readerAt \in BOOLEAN, statOk \in BOOLEAN,
          c \in XlsxContents :
             IsReader(r) /\ XlsxOpenFile(r, readerAt, statOk, c)
    \/ \E r \in Readers, c \in XlsxContents : IsReader(r) /\ XlsxOpenReader(r, c)
    \/ \E r \in Readers, loadOk \in BOOLEAN : IsReader(r) /\ CfbOpenReader(r, loadOk)
    \/ DocList
    \/ \E n \in ArgNames : DocGet(n)
    \/ DocClose

SpecXlsx == InitXlsx /\ [][NextXlsx]_vars

(***************************************************************************)
(* The simple backend: a simpleFile over any rows, its cursor before the   *)
(* first row, then any calls on it.                                        *)
(***************************************************************************)
InitSimple ==
    /\ RegInit /\ XlsxIdle /\ OtherIdle
    /\ rows \in RowLists
    /\ iterRow = -1
    /\ filename \in Filenames
    /\ scall = NoSCall

NextSimple ==
    \/ SimpleList
    \/ \E n \in SimpleArgNames : SimpleGet(n)
    \/ SimpleNext
    \/ SimpleIsEmpty

SpecSimple == InitSimple /\ [][NextSimple]_vars

(***************************************************************************)
(* Scan: a simpleFile over rows of numbers and empty cells, its cursor     *)
(* before the first row, then any Next and Scan calls on it.               *)
(***************************************************************************)
InitScan ==
    /\ RegInit /\ XlsxIdle /\ OtherIdle
    /\ rows \in ScanRowLists
    /\ iterRow = -1
    /\ filename \in {<<"a.csv">>}
    /\ scall = NoSCall

NextScan ==
    \/ SimpleNext
    \/ \E args \in DestLists : SimpleScan(args)

SpecScan == InitScan /\ [][NextScan]_vars

(***************************************************************************)
(* The batch tool on a delimited file, under any setting of its flags.     *)
(***************************************************************************)
InitTool ==
    /\ RegInit /\ XlsxIdle
    /\ cfbd = NoCfb /\ stream = NoStream /\ batch = NoBatch
    /\ rows \in ToolRowLists
    /\ iterRow = -1
    /\ filename \in {<<"a.csv">>}
    /\ scall = NoSCall
    /\ \E rn \in BOOLEAN, ts \in BOOLEAN, sb \in BOOLEAN :
          tool = [pc |-> "start", removeNewlines |-> rn, trimSpaces |-> ts,
                  skipBlanks |-> sb, out |-> <<>>, numRows |-> 0,
                  numCols |-> 0, orig |-> rows, seen |-> 0]

NextTool ==
    \/ ToolOpenSheet
    \/ ToolRow

SpecTool == InitTool /\ [][NextTool]_vars

(***************************************************************************)
(* A loaded cfb Document with any header cutoff and directory, then any    *)
(* List and Open calls on it.                                              *)
(***************************************************************************)
InitCfb ==
    /\ RegInit /\ XlsxIdle /\ SimpleIdle
    /\ tool = NoTool /\ stream = NoStream /\ batch = NoBatch
    /\ \E c \in Cutoffs, dir \in Dirs :
          cfbd = [cutoff |-> c, dir |-> dir, call |-> NoCfbCall]

NextCfb ==
    \/ CfbDocList
    \/ \E name \in StreamNames \cup {"nosuch"} : CfbDocOpen(name)

SpecCfb == InitCfb /\ [][NextCfb]_vars

(***************************************************************************)
(* The batch tool on any command line and any number of CPUs.  Under       *)
(* SpecBatchLive a goroutine that can take a step is eventually scheduled. *)
(***************************************************************************)
InitBatch ==
    /\ RegInit /\ XlsxIdle /\ SimpleIdle
    /\ tool = NoTool /\ cfbd = NoCfb /\ stream = NoStream
    /\ \E args \in BatchArgs :
          batch = [NoBatch EXCEPT !.args = args, !.next = 1,
                                  !.mainPc = "start",
                                  !.recvd = [i \in 1..Len(args) |-> 0]]

Workers == 1..Len(batch.workers)

NextBatch ==
    \/ \E cpus \in 1..MaxCPU : MainStart(cpus)
    \/ \E w \in Workers, ok \in BOOLEAN : SendFilename(w, ok)
    \/ MainClose
    \/ MainWait
    \/ MainDone
    \/ \E w \in Workers : WorkerExit(w)
    \/ \E w \in Workers, created \in BOOLEAN, x \in 0..Len(batch.objs) :
          WorkerSheet(w, created, x)
    \/ \E w \in Workers : WorkerCleanup(w)
    \/ CleanerRange
    \/ CleanerFlush
    \/ CleanerClose
    \/ CleanerPut

SpecBatch == InitBatch /\ [][NextBatch]_vars

SpecBatchLive == InitBatch /\ [][NextBatch]_vars /\ WF_vars(NextBatch)

(***************************************************************************)
(* Backends register, then contents are dispatched by path and by stream.  *)
(***************************************************************************)
NextStream ==
    \/ \E name \in Names, pri \in Pris :
          Calls("src") < MaxBackends /\ BackendInit(name, pri)
    \/ \E c \in StreamContents : StreamOpen(c)
    \/ \E r \in StreamReaders, c \in StreamContents : StreamOpenReader(r, c)

SpecStream == Init /\ [][NextStream]_vars

(***************************************************************************)
(* Properties of the registry and its dispatch, checked under Spec.        *)
(***************************************************************************)
Tables == <<srcTable, fileTable, readerTable>>

\* The probe of entry e rejects content b: NotInFormat, bare or with a cause.
Rejects(e, b) == b[e.op] \in {"notInFormat", "wrappedNotInFormat"}

\* The entries of tab whose probe does not reject b.
Hits(tab, b) == {i \in 1..Len(tab) : ~Rejects(tab[i], b)}

FirstHit(tab, b) == CHOOSE i \in Hits(tab, b) : \A j \in Hits(tab, b) : i <= j

UpTo(n) == [i \in 1..n |-> i]

\* C1: a dispatch walks its table in ascending priority order and returns
\* the outcome of the first probe that does not reject as NotInFormat (bare
\* or wrapped): that probe's Source, or its error unchanged; the probes
\* before it were each invoked once, in order, and none after it.
C1_FirstNonRejecting ==
    lastOpen.kind # "none" =>
        LET tab == TableOf(lastOpen.kind)
            b   == lastOpen.bytes
        IN  /\ IsSortedBy(tab)
            /\ Hits(tab, b) # {} =>
                  LET h == FirstHit(tab, b) IN
                  /\ lastOpen.invoked = UpTo(h)
                  /\ lastOpen.src = Probe(tab[h].op, b).src
                  /\ lastOpen.err = Probe(tab[h].op, b).err

\* A dispatch whose first probe rejects with a wrapped NotInFormat and whose
\* second fails otherwise: the second probe's error is what it returns.
C1_Witness ==
    /\ lastOpen.kind = "OpenFile"
    /\ Len(fileTable) = 2
    /\ lastOpen.bytes[fileTable[1].op] = "wrappedNotInFormat"
    /\ lastOpen.bytes[fileTable[2].op] = "fatal"
    /\ lastOpen.invoked = <<1, 2>>
    /\ lastOpen.err = <<"fatal">>

C3_OneEntryPerName ==
    \A t \in 1..3 : \A i, j \in 1..Len(Tables[t]) :
        Tables[t][i].name = Tables[t][j].name => i = j

EntriesNamed(tab, n) == {i \in 1..Len(tab) : tab[i].name = n}

\* C3 as amended: registration is not idempotent; every Register* call adds
\* one entry, so a table holds as many entries for a name as calls registered
\* it there, and a dispatch in which every probe rejects invokes each of them.
C3_OneEntryPerCall ==
    /\ \A n \in Names :
          /\ Cardinality(EntriesNamed(srcTable, n)) = nreg["src"][n]
          /\ Cardinality(EntriesNamed(fileTable, n)) = nreg["file"][n]
          /\ Cardinality(EntriesNamed(readerTable, n)) = nreg["reader"][n]
    /\ lastOpen.err = ErrUnknownFormat =>
          Len(lastOpen.invoked) = Len(TableOf(lastOpen.kind))

\* A name registered twice in one table, and both entries probed.
C3_Witness ==
    /\ \E n \in Names : nreg["reader"][n] = 2
    /\ lastOpen.kind = "OpenReader"
    /\ lastOpen.invoked = <<1, 2>>

\* C4: each table is ordered by non-decreasing priority, and entries of equal
\* priority stand in the order in which they were registered.
C4_InsertionOrder ==
    \A t \in 1..3 :
        /\ IsSortedBy(Tables[t])
        /\ \A i, j \in 1..Len(Tables[t]) :
              (i < j /\ Tables[t][i].pri = Tables[t][j].pri)
                  => Tables[t][i].ord < Tables[t][j].ord

C6_ReaderDrainedAndClosed ==
    ret.by \in {"xlsx.OpenReader", "cfb.OpenReader"} =>
        /\ reader.eof /\ reader.pos = reader.len
        /\ reader.closes = 1
        /\ ret.src = "doc" => doc.r = "buffer" /\ doc.f = "nil"

\* C7: once Close was called on a Document that xlsx.Open returned, the file
\* handle is closed and sheets, shared strings and XF table are empty; a
\* List after it returns no name and a Get after it returns sheet-not-found
\* and no Collection.
C7_ClosedDocumentIsEmpty ==
    (ret.by = "xlsx.Open" /\ doc.closed) =>
        /\ fh = "closed"
        /\ doc.sheets = <<>> /\ doc.strings = <<>> /\ doc.xfs = <<>>
        /\ (call.afterClose /\ call.op = "List") => call.names = <<>>
        /\ (call.afterClose /\ call.op = "Get") =>
              call.err = ErrSheetNotFound /\ call.coll = NoColl

\* A Get, after Close, of a sheet the workbook was opened with.
C7_Witness ==
    /\ ret.by = "xlsx.Open"
    /\ call.afterClose /\ call.op = "Get"
    /\ \E i \in 1..Len(doc.was) : doc.was[i] = call.arg
    /\ call.err = ErrSheetNotFound

(***************************************************************************)
(* Properties of the Sources and of the simple Collection; those of the    *)
(* simple backend are checked under SpecSimple.                            *)
(***************************************************************************)
InSeq(x, q) == \E i \in 1..Len(q) : q[i] = x

\* C8: on every Source, Get(name) returns the sheet-not-found error exactly
\* when name is not among the names List() returns, and a Collection for
\* every name List() returns.
C8_GetMatchesList ==
    /\ call.op = "Get" =>
          /\ call.err = ErrSheetNotFound <=> ~InSeq(call.arg, List(doc))
          /\ InSeq(call.arg, List(doc)) => call.coll # NoColl
    /\ scall.op = "Get" =>
          /\ scall.err = ErrSheetNotFound
                <=> ~InSeq(scall.arg, SimpleFileList(filename))
          /\ InSeq(scall.arg, SimpleFileList(filename)) => scall.coll # NoColl

\* C9: on the row a Next that returned true made current, Strings, Types and
\* Formats have the same length.
C9_EqualLengths ==
    (scall.nexts >= 1 /\ scall.ok) =>
        /\ OnRow
        /\ Len(Types(rows, iterRow)) = Len(Strings(rows, iterRow))
        /\ Len(Formats(rows, iterRow)) = Len(Strings(rows, iterRow))

\* The second row of a file whose two rows differ in width.
C9_Witness ==
    /\ Len(rows) = 2 /\ Len(rows[1]) # Len(rows[2])
    /\ scall.ok /\ iterRow = 1

Min(a, b) == IF a < b THEN a ELSE b

\* C10: on a Collection of n rows whose cursor started before the first row,
\* the k-th Next returns true exactly when k <= n and then makes row k-1 the
\* current row, so the rows are visited once each, in order; every call after
\* the n-th returns false.
C10_NextVisitsInOrder ==
    LET n == Len(rows)
        k == scall.nexts
    IN  k >= 1 =>
           /\ scall.ok <=> k <= n
           /\ iterRow = k - 1
           /\ k <= n => Strings(rows, iterRow) = rows[k]
           /\ scall.visited = [i \in 1..Min(k, n) |-> i - 1]

\* Two rows visited, then two more Next calls, both false.
C10_Witness ==
    /\ Len(rows) = 2
    /\ scall.nexts = 4 /\ ~scall.ok
    /\ scall.visited = <<0, 1>>

\* C11: a Collection that Get returns has its cursor before the first row,
\* also when an earlier Get's Collection was iterated; so the first Next
\* after a Get makes row 0 the current row.
C11_GetRewinds ==
    /\ scall.op = "Get" => iterRow = -1
    /\ (scall.sinceGet = 1 /\ Len(rows) >= 1) => (scall.ok /\ iterRow = 0)

\* C12: IsEmpty returns true exactly on a Collection of zero rows, wherever
\* the cursor stands, and on a Collection of zero rows every Next, the first
\* included, returns false.
C12_EmptyIffNoRows ==
    /\ scall.op = "IsEmpty" => (scall.empty <=> Len(rows) = 0)
    /\ (Len(rows) = 0 /\ scall.nexts >= 1) => ~scall.ok

\* IsEmpty on two rows with the cursor on the last of them.
C12_Witness ==
    /\ scall.op = "IsEmpty" /\ ~scall.empty
    /\ Len(rows) = 2 /\ iterRow = 1 /\ scall.nexts = 2

(***************************************************************************)
(* Properties of simpleFile.Scan, checked under SpecScan.                  *)
(***************************************************************************)
\* The destination types the Collection contract names (grate.go:43-44).
Supported == {"*bool", "*int64", "*float64", "*string", "*time.Time"}

\* C13: a Scan that returns gives ErrInvalidScanType exactly when one of its
\* destinations is not a pointer to bool, int64, float64, string or
\* time.Time.
C13_InvalidScanTypeIffUnsupported ==
    (scall.op = "Scan" /\ ~scall.panic) =>
        (scall.err = ErrInvalidScanType
            <=> \E i \in 1..Len(scall.args) : scall.args[i] \notin Supported)

\* The first destination of a Scan whose loop iteration ends with an error.
FirstFailing(row, args) ==
    CHOOSE i \in 1..Len(args) :
        /\ ScanArg(row[i], args[i]).err # Nil
        /\ \A j \in 1..(i - 1) : ScanArg(row[j], args[j]).err = Nil

IsParseError(err) ==
    err # Nil /\ err[1] \in {"strconv.ParseInt", "strconv.ParseFloat"}

\* C14: when Scan fails because a cell does not parse as its integer or float
\* destination, the error names the column of that cell (counted from 0).
C14_ParseErrorCarriesColumn ==
    (scall.op = "Scan" /\ ~scall.panic /\ IsParseError(scall.err)) =>
        LET row == scall.before[2][scall.before[1] + 1]
            col == FirstFailing(row, scall.args) - 1
        IN  \E k \in 1..Len(scall.err) : scall.err[k] = ToString(col)

\* C15: a Scan that returns an error leaves Err() nil and the cursor and the
\* rows as they were, so Strings() is the row it was; and with failed Scans
\* among the calls the k-th Next still returns true exactly when k is at
\* most the number of rows, and makes row k-1 current.
C15_FailedScanKeepsIterator ==
    /\ (scall.op = "Scan" /\ ~scall.panic /\ scall.err # Nil) =>
          /\ Err(rows, iterRow) = Nil
          /\ scall.before = <<iterRow, rows>>
          /\ Strings(rows, iterRow) = scall.before[2][scall.before[1] + 1]
    /\ (scall.scanFailed /\ scall.nexts >= 1) =>
          /\ scall.ok <=> scall.nexts <= Len(rows)
          /\ iterRow = scall.nexts - 1

\* A Scan failed on the first of two rows, and the Next after it made the
\* second row current.
C15_Witness ==
    /\ scall.scanFailed
    /\ scall.op = "Next" /\ scall.ok
    /\ scall.nexts = 2 /\ iterRow = 1

(***************************************************************************)
(* Properties of the batch tool, checked under SpecTool.                   *)
(***************************************************************************)
\* The rows the tool has written once the loop was given the first k rows
\* of the file, were a row written exactly when skipBlanks is off or one of
\* its cells is not empty after normalization.
RECURSIVE ExpectedOut(_, _, _)
ExpectedOut(orig, f, k) ==
    IF k = 0 THEN <<>>
    ELSE LET row  == orig[k]
             kept == [i \in 1..Len(row) |-> CellKept(row[i], f)]
         IN  IF ~f.skipBlanks \/ \E i \in 1..Len(row) : CellSeen(row[i], f) # <<>>
             THEN Append(ExpectedOut(orig, f, k - 1), kept)
             ELSE ExpectedOut(orig, f, k - 1)

\* C16: the loop over a Collection is given every row of the file, in
\* order, rows of empty cells included; the tool writes a row exactly when
\* skipBlanks is off or the row has a cell that is not empty after
\* normalization, and NumRows counts the rows written.
C16_OnlyTheToolDropsRows ==
    tool.pc \in {"rows", "done"} =>
        /\ tool.seen = iterRow + 1 \/ (tool.pc = "done" /\ tool.seen = iterRow)
        /\ tool.pc = "done" => tool.seen = Len(tool.orig)
        /\ tool.out = ExpectedOut(tool.orig, tool, tool.seen)
        /\ tool.numRows = Len(tool.out)

\* Rows ["a","b"], ["","",""], ["c"] with skipBlanks: two rows written.
C16_Witness ==
    /\ tool.pc = "done" /\ tool.skipBlanks
    /\ tool.orig = << << <<"a">>, <<"b">> >>, << <<>>, <<>>, <<>> >>,
                      << <<"c">> >> >>
    /\ tool.seen = 3
    /\ tool.out = << << <<"a">>, <<"b">> >>, << <<"c">> >> >>
    /\ tool.numRows = 2

(***************************************************************************)
(* Further properties of the xlsx Document, checked under SpecXlsx.        *)
(***************************************************************************)
\* C17: a sheet is materialized at most once, by the first Get that selects
\* it and by no Get of another name; every Get of a name returns the
\* Collection and the error the first Get of that name returned, also when
\* that error is a parse failure.
C17_MaterializedOnce ==
    /\ \A i \in 1..Len(doc.sheets) :
          /\ doc.sheets[i].parses <= 1
          /\ doc.sheets[i].parses = 1 <=> doc.sheets[i].first # <<>>
    /\ call.op = "Get" =>
          /\ \A i \in call.loaded : doc.was[i] = call.arg
          /\ call.repeat => call.loaded = {}
          /\ \A i \in Named(doc, call.arg) :
                (\A j \in Named(doc, call.arg) : i <= j) =>
                    doc.sheets[i].first
                        = <<[coll |-> call.coll, err |-> call.err]>>

\* A second Get of a sheet whose worksheet part does not parse, in a
\* workbook of two sheets of which the other was never asked for.
C17_Witness ==
    /\ call.op = "Get" /\ call.repeat
    /\ call.err = <<"parse error">>
    /\ Len(doc.sheets) = 2
    /\ \E i \in 1..2 : doc.sheets[i].name # call.arg /\ doc.sheets[i].parses = 0

\* The errors of the operating system and of the caller's reader: the
\* opener did not get at the content.
IOErrors == {<<"open error">>, <<"stat error">>, <<"read error">>,
             <<"close error">>}

\* C18: an xlsx opener that returns classifies its error as NotInFormat
\* exactly when it got at the content and the content is not a ZIP archive
\* or its part _rels/.rels is missing or does not parse; every other
\* failure, of the later parts included, is an error that is not
\* NotInFormat, on which a dispatch stops.
C18_NotInFormatIffRejected ==
    (ret.by \in {"xlsx.Open", "xlsx.OpenFile", "xlsx.OpenReader"}
     /\ ~ret.panic) =>
        /\ ret.err \in IOErrors => ~ErrorsIs(ret.err, ErrNotInFormat)
        /\ ret.err \notin IOErrors =>
              (ErrorsIs(ret.err, ErrNotInFormat)
                  <=> (~ret.input.zip \/ ret.input.parts["rels"] # "ok"))
        /\ (ret.input.zip /\ ret.input.parts["rels"] = "ok"
             /\ (~ret.input.primary
                    \/ \E p \in Parts : ret.input.parts[p] # "ok")) =>
              /\ ret.err # Nil /\ ret.src = "nil"
              /\ ~ErrorsIs(ret.err, ErrNotInFormat)

\* xlsx.Open on a ZIP archive without the part _rels/.rels.
C18_Witness ==
    /\ ret.by = "xlsx.Open" /\ ~ret.panic
    /\ ret.input.zip /\ ret.input.parts["rels"] = "missing"
    /\ ret.err = WrapErr(<<"EOF">>, ErrNotInFormat)

(***************************************************************************)
(* Properties of the cfb Document, checked under SpecCfb.                  *)
(***************************************************************************)
\* The stream entries of the directory with the name a call asked for.
StreamsNamed(n) ==
    {i \in 1..Len(cfbd.dir) :
        cfbd.dir[i].name = n /\ cfbd.dir[i].objectType = "stream"}

\* C19: Open(name) returns stream-not-found exactly when no directory entry
\* of type stream has the name, so it opens every name List returns; for the
\* first such entry it reads through the miniFAT when the declared size is
\* below the cutoff and through the FAT otherwise.
C19_OpensEveryListedStream ==
    cfbd.call.op = "Open" =>
        LET found == StreamsNamed(cfbd.call.arg) IN
        /\ cfbd.call.err = ErrStreamNotFound <=> found = {}
        /\ InSeq(cfbd.call.arg, CfbList(cfbd.dir)) => cfbd.call.err = Nil
        /\ found # {} =>
              LET e == cfbd.dir[CHOOSE i \in found : \A j \in found : i <= j]
              IN  cfbd.call.via = IF e.size < cfbd.cutoff THEN "miniFAT"
                                  ELSE "FAT"

(***************************************************************************)
(* Dispatch by stream against dispatch by path, checked under SpecStream.  *)
(***************************************************************************)
\* The outcome of a dispatch: the backend selected, UnknownFormat, or the
\* error it stopped on.
OutcomeOf(o) ==
    IF o.err = Nil THEN <<"source", o.src>>
    ELSE IF o.err = ErrUnknownFormat THEN <<"UnknownFormat", NoSource>>
    ELSE <<"fatal", NoSource>>

\* C20: with the same backends registered, grate.OpenReader on a reader that
\* delivers the bytes has the outcome of grate.Open on a file of the same
\* bytes, and every probe OpenReader invokes is given all the bytes.
C20_StreamDispatchAsPath ==
    /\ stream.rd.done =>
          \A k \in 1..Len(stream.rd.whole) : stream.rd.whole[k]
    /\ (stream.rd.done /\ stream.path.done) =>
          OutcomeOf(stream.rd) = OutcomeOf(stream.path)

(***************************************************************************)
(* Resources of the xlsx openers, checked under SpecXlsx.                  *)
(***************************************************************************)
\* C21: when xlsx.Open has returned an error, the file handle it opened is
\* closed; the handle is open only while a Document that xlsx.Open returned
\* and that was not closed owns it.
C21_NoHandleLeftOpen ==
    ret.by = "xlsx.Open" =>
        /\ ret.err # Nil => fh # "open"
        /\ fh = "open" => (ret.src = "doc" /\ doc.f = "file" /\ ~doc.closed)

\* C22: xlsx.OpenFile returns, with a Source or an error, on every file; on
\* a file that is not an io.ReaderAt it does so after reading the file to
\* its end and closing it, without a call on the nil file.
C22_OpenFileReturns ==
    ret.by = "xlsx.OpenFile" =>
        /\ ~ret.panic
        /\ (ret.src = "doc") # (ret.err # Nil)

(***************************************************************************)
(* Properties of the batch tool's main, checked under SpecBatchLive (C23)  *)
(* and SpecBatch (C24).                                                    *)
(***************************************************************************)
\* C23: main returns, whatever the filenames and the number of CPUs.
C23_MainTerminates == <>(batch.mainPc = "returned")

\* The outputs a worker holds.
Held == {batch.workers[w].ox : w \in 1..Len(batch.workers)} \ {0}

\* The workers at work on argument i.
WorkingOn(i) == {w \in 1..Len(batch.workers) : batch.workers[w].arg = i}

\* C24: an argument is received at most once and is with at most one worker,
\* and it was received exactly once when main has returned; a file is
\* flushed and closed at most once, only after its output was sent to
\* cleanup, and exactly once when main has returned; the output the cleanup
\* goroutine flushes and closes is neither held by a worker nor in the pool.
C24_OnceEach ==
    /\ \A i \in 1..Len(batch.recvd) :
          /\ batch.recvd[i] <= 1
          /\ Cardinality(WorkingOn(i)) <= batch.recvd[i]
          /\ batch.mainPc = "returned" => batch.recvd[i] = 1
    /\ \A f \in 1..Len(batch.files) :
          /\ batch.files[f].flushes <= 1 /\ batch.files[f].closes <= 1
          /\ batch.files[f].early = 0
          /\ batch.files[f].closes = 1 => batch.files[f].flushes = 1
          /\ batch.mainPc = "returned" =>
                /\ batch.files[f].sent
                /\ batch.files[f].flushes = 1 /\ batch.files[f].closes = 1
    /\ batch.cleaner.pc \in {"flush", "close"} =>
          batch.cleaner.x \notin Held \cup batch.pool

\* main has returned with two workers started and two files written, the
\* second through the output of the first, which came back from the pool.
C24_Witness ==
    /\ batch.mainPc = "returned"
    /\ Len(batch.workers) = 2
    /\ Len(batch.args) = 2
    /\ Len(batch.files) = 2 /\ Len(batch.objs) = 1

=============================================================================
